---- MODULE Spec2Model ----
(***************************************************************************)
(* Model of src/server/pdf_generator.py: the command-line entry point, the *)
(* JSON decoding, the header stage (_draw_header_info), the table stage    *)
(* (_draw_observation_table: grouping by local calendar day, sorting,      *)
(* the 8-session cap, five timing rows per session) and the save.          *)
(*                                                                         *)
(* Lengths are kept exact by measuring in half millimetres: every          *)
(* coordinate of the program is a multiple of 1 mm except the column width *)
(* (190 mm / 4 = 47.5 mm).  Strings that are compared by the program (the  *)
(* "%Y-%m-%d" date keys) are sequences of character codes; glyphs and      *)
(* labels that are only drawn are named tokens.                            *)
(***************************************************************************)
EXTENDS Integers, Sequences, FiniteSets, TLC

VARIABLES
    tz,               \* local time zone of the process, hours east of UTC
    argv,             \* sys.argv
    pc,               \* position of the run
    stdout,           \* lines printed so far
    exit_code,        \* process exit status (0 unless sys.exit(1) ran)
    error,            \* the exception in flight, "" when none
    output_path,      \* ObservationFormPDF.output_path
    facility_info,    \* facilityInfo of the decoded document
    records,          \* records of the decoded document
    header_ops,       \* what _draw_header_info drew, in order
    y_position,       \* generate()'s cursor
    y_start,          \* _draw_observation_table's parameter y_start
    y,                \* _draw_observation_table's cursor
    canvas_ops,       \* title, table header row and footer calls, in order
    record_i,         \* index of the next record of the grouping loop
    records_by_date,  \* the dict, as <<key, list>> pairs in insertion order
    session_keys,     \* sorted(records_by_date.keys())[:8]
    session_i,        \* number of session_keys already taken by the loop
    session_num,      \* session_num
    timing,           \* loop variable of the inner loop
    rows,             \* the data rows drawn, in order
    saved             \* c.save() completed

vars == <<tz, argv, pc, stdout, exit_code, error, output_path, facility_info,
          records, header_ops, y_position, y_start, y, canvas_ops, record_i,
          records_by_date, session_keys, session_i, session_num, timing,
          rows, saved>>

----------------------------------------------------------------------------
(* Bounds of the explored inputs *)

\* largest number of filler dates (one record each) of an input
MaxFill == 9
\* largest number of freely chosen records of an input
MaxFree == 2

----------------------------------------------------------------------------
(* Units and page geometry *)

\* one millimetre, in the model's unit of half a millimetre
mm == 2
page_width == 210 * mm
page_height == 297 * mm
margin == 10 * mm

Min(a, b) == IF a < b THEN a ELSE b

\* mapping.get(key, default)
Get(mapping, key, default) ==
    IF key \in DOMAIN mapping THEN mapping[key] ELSE default

----------------------------------------------------------------------------
(* datetime.fromtimestamp(ms / 1000).strftime("%Y-%m-%d") *)

MsPerHour == 3600000
MsPerDay == 86400000

\* number of the local calendar day holding the instant (day 0 = 1970-01-01)
LocalDay(timestamp, zone) == (timestamp + zone * MsPerHour) \div MsPerDay

\* proleptic Gregorian date <<year, month, day>> of a day number
CivilFromDays(days) ==
    LET z == days + 719468
        era == z \div 146097
        doe == z - era * 146097
        yoe == (doe - doe \div 1460 + doe \div 36524 - doe \div 146096) \div 365
        doy == doe - (365 * yoe + yoe \div 4 - yoe \div 100)
        mp == (5 * doy + 2) \div 153
        d == doy - (153 * mp + 2) \div 5 + 1
        m == IF mp < 10 THEN mp + 3 ELSE mp - 9
        yr == yoe + era * 400 + (IF m <= 2 THEN 1 ELSE 0)
    IN  <<yr, m, d>>

\* character codes of the decimal digits of n, zero padded to width
RECURSIVE Digits(_, _)
Digits(n, width) ==
    IF width = 0 THEN <<>>
    ELSE Append(Digits(n \div 10, width - 1), 48 + (n % 10))

\* code of "-"
Hyphen == 45

StrfTime(date) ==
    Digits(date[1], 4) \o <<Hyphen>> \o Digits(date[2], 2) \o <<Hyphen>>
        \o Digits(date[3], 2)

\* the date_key of a record (line 149); a missing timestamp reads as 0
DateKey(record, zone) ==
    StrfTime(CivilFromDays(LocalDay(Get(record, "timestamp", 0), zone)))

\* Python's str < str: lexicographic on the character codes
RECURSIVE StrLess(_, _)
StrLess(a, b) ==
    IF b = <<>> THEN FALSE
    ELSE IF a = <<>> THEN TRUE
    ELSE IF Head(a) # Head(b) THEN Head(a) < Head(b)
    ELSE StrLess(Tail(a), Tail(b))

\* sorted(keys): ascending insertion sort of a list of distinct strings
RECURSIVE InsertSorted(_, _)
InsertSorted(key, sortedKeys) ==
    IF sortedKeys = <<>> THEN <<key>>
    ELSE IF StrLess(key, Head(sortedKeys)) THEN <<key>> \o sortedKeys
    ELSE <<Head(sortedKeys)>> \o InsertSorted(key, Tail(sortedKeys))

RECURSIVE Sorted(_)
Sorted(keys) ==
    IF keys = <<>> THEN <<>>
    ELSE InsertSorted(keys[Len(keys)], Sorted(SubSeq(keys, 1, Len(keys) - 1)))

----------------------------------------------------------------------------
(* TIMINGS, ACTIONS (here ACTION_KINDS) and the drawn tokens *)

\* TIMINGS[timing]["name"], one token per defined timing
TIMINGS ==
    <<"before_patient_contact", "before_aseptic_procedure",
      "after_body_fluid_exposure", "after_patient_contact",
      "after_patient_surroundings">>

\* the action kinds of the if/elif chain, in its order
ACTION_KINDS == <<"hand_sanitizer", "hand_wash", "no_action">>

\* a check-box glyph followed by the name of an action kind
Glyph(checked, kind) == [checked |-> checked, kind |-> kind]

\* a drawing call on the canvas
DrawString(x, yy, text) ==
    [op |-> "drawString", x |-> x, y |-> yy, x2 |-> x, y2 |-> yy, text |-> text]
Line(x1, y1, x2, y2) ==
    [op |-> "line", x |-> x1, y |-> y1, x2 |-> x2, y2 |-> y2, text |-> ""]
Rect(x, yy, width, height) ==
    [op |-> "rect", x |-> x, y |-> yy, x2 |-> x + width, y2 |-> yy + height,
     text |-> ""]

----------------------------------------------------------------------------
(* _draw_header_info *)

\* keys of facility_info, in the order of the fields list
FieldKeys ==
    <<"facilityName", "department", "ward", "section", "periodNumber",
      "date", "sessionNumber", "observer", "pageNumber", "address">>

\* the fixed labels of the fields list, in order
FieldLabels ==
    <<"label_facility_name", "label_department", "label_ward",
      "label_section", "label_period_number", "label_date",
      "label_session_number", "label_observer", "label_page_number",
      "label_address">>

\* fields[i] for the 0-based index i: (label, facility_info.get(key, ""))
Fields(info, i) == <<FieldLabels[i + 1], Get(info, FieldKeys[i + 1], "")>>

line_height == 5 * mm
x_left == margin
x_right == page_width \div 2 + 5 * mm

FieldX(i) == IF i % 2 = 0 THEN x_left ELSE x_right

\* variant: the right column one row too low
FieldYShifted(i, y0) ==
    IF i % 2 = 0
    THEN y0 - (i \div 2) * line_height
    ELSE y0 - ((i + 1) \div 2) * line_height

FieldY(i, y0) ==
    IF i % 2 = 0
    THEN y0 - (i \div 2) * line_height
    ELSE y0 - ((i - 1) \div 2) * line_height

\* body of the loop for field i: label, answer rule, value when truthy
DrawField(info, i, y0) ==
    LET label == Fields(info, i)[1]
        value == Fields(info, i)[2]
        x == FieldX(i)
        yy == FieldY(i, y0)
    IN  <<DrawString(x, yy, label),
          Line(x + 25 * mm, yy - 1 * mm, x + 60 * mm, yy - 1 * mm)>>
        \o (IF value # "" THEN <<DrawString(x + 26 * mm, yy - 2 * mm, value)>>
            ELSE <<>>)

\* the calls of the whole loop, fields 0 .. n-1
RECURSIVE HeaderOps(_, _, _)
HeaderOps(info, n, y0) ==
    IF n = 0 THEN <<>>
    ELSE HeaderOps(info, n - 1, y0) \o DrawField(info, n - 1, y0)

----------------------------------------------------------------------------
(* _draw_observation_table: geometry and the per-row computations *)

table_width == page_width - 2 * margin
col_width == table_width \div 4
row_height == 8 * mm

\* y = y_start - 10 * mm (y0 is the parameter y_start)
TableStartY(y0) == y0 - 10 * mm

\* headers, and the calls of the header row drawn with its top at top
TableHeaders == <<"opportunity", "indication", "hand_hygiene", "opportunity">>

TableHeaderOps(top) ==
    <<Rect(margin, top - row_height, table_width, row_height)>>
    \o [i \in 1..Len(TableHeaders) |->
          DrawString(margin + (i - 1) * col_width + 2 * mm,
                     top - row_height + 2 * mm, TableHeaders[i])]

\* the cursor below a row whose top is at top
\* variant: the cursor is not moved
BelowRowNoStep(top) == top

BelowRow(top) == top - row_height

\* records_by_date after the loop body ran for one record
RECURSIVE AddRecord(_, _, _)
AddRecord(byDate, record, zone) ==
    LET date_key == DateKey(record, zone) IN
    IF byDate = <<>> THEN <<<<date_key, <<record>>>>>>
    ELSE IF Head(byDate)[1] = date_key
         THEN <<<<date_key, Append(Head(byDate)[2], record)>>>> \o Tail(byDate)
         ELSE <<Head(byDate)>> \o AddRecord(Tail(byDate), record, zone)


\* keys of the dict in insertion order
Keys(byDate) == [i \in 1..Len(byDate) |-> byDate[i][1]]

\* records_by_date[date_key]
SessionRecords(byDate, date_key) ==
    LET i == CHOOSE j \in 1..Len(byDate) : byDate[j][1] = date_key
    IN  byDate[i][2]

\* variant: the cap one too large
MaxSessionsPlusOne == 8 + 1

\* the session cap of the slice [:8]
MaxSessions == 8

\* variant: the keys cut in insertion order, unsorted
FirstInserted(byDate) ==
    SubSeq(Keys(byDate), 1, Min(MaxSessions, Len(byDate)))

\* sorted(records_by_date.keys())[:8]
SessionKeys(byDate) ==
    SubSeq(Sorted(Keys(byDate)), 1, Min(MaxSessions, Len(byDate)))

\* range(1, 6)
TimingRange == 1..5

HasTiming(record, t) == "timing" \in DOMAIN record /\ record["timing"] = t

\* variant: the filter runs over the records of every date
TimingRecordsOfAllDates(session_records, t) ==
    SelectSeq(records, LAMBDA r : HasTiming(r, t))

\* [r for r in session_records if r.get("timing") == timing]
TimingRecords(session_records, t) ==
    SelectSeq(session_records, LAMBDA r : HasTiming(r, t))

\* the actions list after the loop over timing_records (lines 179-187)
RECURSIVE CheckedActions(_)
CheckedActions(timing_records) ==
    IF timing_records = <<>> THEN <<>>
    ELSE LET action == Get(Head(timing_records), "action", "")
             glyph ==
                 IF action = "hand_sanitizer"
                 THEN <<Glyph(TRUE, "hand_sanitizer")>>
                 ELSE IF action = "hand_wash"
                 THEN <<Glyph(TRUE, "hand_wash")>>
                 ELSE IF action = "no_action"
                 THEN <<Glyph(TRUE, "no_action")>>
                 ELSE <<>>
         IN  glyph \o CheckedActions(Tail(timing_records))

\* the list of line 190
UncheckedActions ==
    <<Glyph(FALSE, "hand_sanitizer"), Glyph(FALSE, "hand_wash"),
      Glyph(FALSE, "no_action")>>

\* actions after the "if not actions" of lines 189-190
RowActions(timing_records) ==
    IF CheckedActions(timing_records) = <<>> THEN UncheckedActions
    ELSE CheckedActions(timing_records)

\* " ".join(actions[:2]): the glyphs joined, in order
ActionText(actions) == SubSeq(actions, 1, Min(2, Len(actions)))

\* one data row as drawn by the inner loop body (lines 162-197)
Row(num, date_key, session_records, t, top) ==
    LET timing_records == TimingRecords(session_records, t) IN
    [session_num |-> num,
     date_key |-> date_key,
     timing |-> t,
     timing_name |-> TIMINGS[t],
     applicable |-> timing_records # <<>>,
     action_text |-> ActionText(RowActions(timing_records)),
     timing_records |-> timing_records,
     top |-> top,
     rect |-> Rect(margin, top - row_height, table_width, row_height)]


----------------------------------------------------------------------------
(* Inputs *)

\* time zones of the process, hours east of UTC
TzOffsets == {0, 9}

Script == "pdf_generator.py"
Path == "out.pdf"

\* filler record i: one record on day i - 5 at 03:00 UTC, timings 0..6
\* (0 and 6 are outside 1..5) and actions (one unknown) taken in rotation
FillRecord(i) ==
    [timestamp |-> (i - 5) * MsPerDay + 3 * MsPerHour,
     timing |-> (i + 3) % 7,
     action |-> <<"hand_wash", "hand_sanitizer", "no_action", "gloves">>[(i % 4) + 1]]

Fill(n) == [i \in 1..n |-> FillRecord(i)]

Reverse(s) == [i \in 1..Len(s) |-> s[Len(s) + 1 - i]]

\* the alphabet of the freely chosen records
FreeRecords ==
    { [timestamp |-> 10 * MsPerHour, timing |-> 1, action |-> "hand_sanitizer"],
      [timestamp |-> 10 * MsPerHour, timing |-> 1, action |-> "hand_wash"],
      [timestamp |-> 11 * MsPerHour, timing |-> 1, action |-> "no_action"],
      [timestamp |-> 20 * MsPerHour, timing |-> 2],
      [timing |-> 6],
      [timestamp |-> (0 - 8) * MsPerDay, action |-> "hand_wash"] }

FreeLists == UNION {[1..k -> FreeRecords] : k \in 0..MaxFree}

FillCounts == {0, 1, 5, MaxFill - 1, MaxFill}

\* record lists: fillers in date order then the free records, or the free
\* records then the fillers in reverse date order
RecordInputs ==
    {Fill(n) \o free : n \in FillCounts, free \in FreeLists}
    \cup {free \o Reverse(Fill(n)) : n \in FillCounts, free \in FreeLists}

EmptyInfo == [k \in {} |-> ""]
SampleInfo == [facilityName |-> "General Hospital"]
FullInfo == [i \in {FieldKeys[j] : j \in 1..Len(FieldKeys)} |-> "x"]

\* argv[2] as json.loads sees it: malformed text, a JSON value that is not an
\* object, or an object with any of its two keys
Malformed == [kind |-> "malformed", value |-> EmptyInfo]
NotAnObject == [kind |-> "array", value |-> EmptyInfo]
Document(value) == [kind |-> "object", value |-> value]

SmallDocuments ==
    { Document(EmptyInfo),
      Document([records |-> <<>>]),
      Document([facilityInfo |-> FullInfo]),
      Document([facilityInfo |-> [facilityName |-> "", ward |-> "W3"],
                records |-> <<>>]) }

JsonInputs ==
    {Malformed, NotAnObject} \cup SmallDocuments
    \cup {Document([facilityInfo |-> SampleInfo, records |-> r]) : r \in RecordInputs}

ArgvInputs ==
    {<<Script>>, <<Script, Path>>}
    \cup {<<Script, Path, j>> : j \in JsonInputs}
    \cup {<<Script, Path, j, "extra">> : j \in {Malformed} \cup SmallDocuments}

Init ==
    /\ tz \in TzOffsets
    /\ argv \in ArgvInputs
    /\ pc = "main"
    /\ stdout = <<>>
    /\ exit_code = 0
    /\ error = ""
    /\ output_path = ""
    /\ facility_info = EmptyInfo
    /\ records = <<>>
    /\ header_ops = <<>>
    /\ y_position = 0
    /\ y_start = 0
    /\ y = 0
    /\ canvas_ops = <<>>
    /\ record_i = 0
    /\ records_by_date = <<>>
    /\ session_keys = <<>>
    /\ session_i = 0
    /\ session_num = 0
    /\ timing = 0
    /\ rows = <<>>
    /\ saved = FALSE

----------------------------------------------------------------------------
(* main and generate_from_json *)

UsageLine == [kind |-> "text", success |-> FALSE, payload |-> "Usage"]
JsonLine(success, payload) ==
    [kind |-> "json", success |-> success, payload |-> payload]

\* lines 222-224: too few arguments
MainUsage ==
    /\ pc = "main"
    /\ Len(argv) < 3
    /\ stdout' = Append(stdout, UsageLine)
    /\ exit_code' = 1
    /\ pc' = "exited"
    /\ UNCHANGED <<tz, argv, error, output_path, facility_info, records,
                   header_ops, y_position, y_start, y, canvas_ops, record_i,
                   records_by_date, session_keys, session_i, session_num,
                   timing, rows, saved>>

\* lines 226-230: the generator is constructed
MainStart ==
    /\ pc = "main"
    /\ Len(argv) >= 3
    /\ output_path' = argv[2]
    /\ pc' = "generate_from_json"
    /\ UNCHANGED <<tz, argv, stdout, exit_code, error, facility_info, records,
                   header_ops, y_position, y_start, y, canvas_ops, record_i,
                   records_by_date, session_keys, session_i, session_num,
                   timing, rows, saved>>

\* lines 213-215: json.loads raises on malformed text, data.get raises on a
\* value without get
GenerateFromJson ==
    /\ pc = "generate_from_json"
    /\ LET json_data == argv[3] IN
       \/ /\ json_data.kind = "malformed"
          /\ error' = "JSONDecodeError"
          /\ pc' = "except"
          /\ UNCHANGED <<facility_info, records>>
       \/ /\ json_data.kind = "array"
          /\ error' = "AttributeError"
          /\ pc' = "except"
          /\ UNCHANGED <<facility_info, records>>
       \/ /\ json_data.kind = "object"
          /\ facility_info' = Get(json_data.value, "facilityInfo", EmptyInfo)
          /\ records' = Get(json_data.value, "records", <<>>)
          /\ pc' = "generate"
          /\ UNCHANGED error
    /\ UNCHANGED <<tz, argv, stdout, exit_code, output_path, header_ops,
                   y_position, y_start, y, canvas_ops, record_i,
                   records_by_date, session_keys, session_i, session_num,
                   timing, rows, saved>>

\* lines 232: the success response; main returns and the process exits 0
PrintSuccess ==
    /\ pc = "print"
    /\ stdout' = Append(stdout, JsonLine(TRUE, output_path))
    /\ pc' = "exited"
    /\ UNCHANGED <<tz, argv, exit_code, error, output_path, facility_info,
                   records, header_ops, y_position, y_start, y, canvas_ops,
                   record_i, records_by_date, session_keys, session_i,
                   session_num, timing, rows, saved>>

\* variant: the failure response without sys.exit(1)
HandleExceptionExitZero ==
    /\ pc = "except"
    /\ stdout' = Append(stdout, JsonLine(FALSE, error))
    /\ pc' = "exited"
    /\ UNCHANGED <<tz, argv, exit_code, error, output_path, facility_info,
                   records, header_ops, y_position, y_start, y, canvas_ops,
                   record_i, records_by_date, session_keys, session_i,
                   session_num, timing, rows, saved>>

\* lines 233-235: the failure response and sys.exit(1)
HandleException ==
    /\ pc = "except"
    /\ stdout' = Append(stdout, JsonLine(FALSE, error))
    /\ exit_code' = 1
    /\ pc' = "exited"
    /\ UNCHANGED <<tz, argv, error, output_path, facility_info, records,
                   header_ops, y_position, y_start, y, canvas_ops, record_i,
                   records_by_date, session_keys, session_i, session_num,
                   timing, rows, saved>>


----------------------------------------------------------------------------
(* generate *)

DrawCentredString(x, yy, text) ==
    [op |-> "drawCentredString", x |-> x, y |-> yy, x2 |-> x, y2 |-> yy,
     text |-> text]
DrawRightString(x, yy, text) ==
    [op |-> "drawRightString", x |-> x, y |-> yy, x2 |-> x, y2 |-> yy,
     text |-> text]

\* lines 55-69: the canvas is opened and the titles drawn; the library may
\* raise (the path cannot be used, the font is not known to it)
Generate ==
    /\ pc = "generate"
    /\ \/ /\ error' = "RenderError"
          /\ pc' = "except"
          /\ UNCHANGED <<canvas_ops, y_position>>
       \/ /\ canvas_ops' =
                <<DrawCentredString(page_width \div 2, page_height - 20 * mm, "title"),
                  DrawCentredString(page_width \div 2, page_height - 28 * mm, "subtitle")>>
          /\ y_position' = page_height - 35 * mm
          /\ pc' = "header"
          /\ UNCHANGED error
    /\ UNCHANGED <<tz, argv, stdout, exit_code, output_path, facility_info,
                   records, header_ops, y_start, y, record_i, records_by_date,
                   session_keys, session_i, session_num, timing, rows, saved>>

\* lines 70 and 82-121: the whole of _draw_header_info
DrawHeaderInfo ==
    /\ pc = "header"
    /\ header_ops' = HeaderOps(facility_info, Len(FieldKeys), y_position)
    /\ y_position' = y_position - 6 * line_height
    /\ pc' = "table"
    /\ UNCHANGED <<tz, argv, stdout, exit_code, error, output_path,
                   facility_info, records, y_start, y, canvas_ops, record_i,
                   records_by_date, session_keys, session_i, session_num,
                   timing, rows, saved>>

\* lines 73 and 125-147: the table starts, its header row is drawn
DrawTableHeader ==
    /\ pc = "table"
    /\ y_start' = y_position
    /\ canvas_ops' = canvas_ops \o TableHeaderOps(TableStartY(y_position))
    /\ y' = BelowRow(TableStartY(y_position))
    /\ records_by_date' = <<>>
    /\ record_i' = 1
    /\ pc' = "group"
    /\ UNCHANGED <<tz, argv, stdout, exit_code, error, output_path,
                   facility_info, records, header_ops, y_position,
                   session_keys, session_i, session_num, timing, rows, saved>>

\* variant: only records with a timing in range(1, 6) are grouped
GroupRecordValidTimingOnly ==
    /\ pc = "group"
    /\ record_i <= Len(records)
    /\ records_by_date' =
           IF \E t \in TimingRange : HasTiming(records[record_i], t)
           THEN AddRecord(records_by_date, records[record_i], tz)
           ELSE records_by_date
    /\ record_i' = record_i + 1
    /\ UNCHANGED <<tz, argv, pc, stdout, exit_code, error, output_path,
                   facility_info, records, header_ops, y_position, y_start, y,
                   canvas_ops, session_keys, session_i, session_num, timing,
                   rows, saved>>

\* lines 148-152: one iteration of the grouping loop
GroupRecord ==
    /\ pc = "group"
    /\ record_i <= Len(records)
    /\ records_by_date' = AddRecord(records_by_date, records[record_i], tz)
    /\ record_i' = record_i + 1
    /\ UNCHANGED <<tz, argv, pc, stdout, exit_code, error, output_path,
                   facility_info, records, header_ops, y_position, y_start, y,
                   canvas_ops, session_keys, session_i, session_num, timing,
                   rows, saved>>

\* lines 155-156: the grouping loop is over; the keys are sorted and cut
SortSessions ==
    /\ pc = "group"
    /\ record_i > Len(records)
    /\ session_num' = 0
    /\ session_keys' = SessionKeys(records_by_date)
    /\ session_i' = 0
    /\ pc' = "sessions"
    /\ UNCHANGED <<tz, argv, stdout, exit_code, error, output_path,
                   facility_info, records, header_ops, y_position, y_start, y,
                   canvas_ops, record_i, records_by_date, timing, rows, saved>>

\* lines 156-161: the outer loop takes the next date key
NextSession ==
    /\ pc = "sessions"
    /\ session_i < Len(session_keys)
    /\ session_i' = session_i + 1
    /\ session_num' = session_num + 1
    /\ timing' = 1
    /\ pc' = "rows"
    /\ UNCHANGED <<tz, argv, stdout, exit_code, error, output_path,
                   facility_info, records, header_ops, y_position, y_start, y,
                   canvas_ops, record_i, records_by_date, session_keys, rows,
                   saved>>

\* variant: a row is drawn only for a timing that has records
DrawRowSkipUnmatched ==
    /\ pc = "rows"
    /\ LET date_key == session_keys[session_i]
           session_records == SessionRecords(records_by_date, date_key)
           drawn == TimingRecords(session_records, timing) # <<>>
       IN  /\ rows' = IF drawn
                      THEN Append(rows, Row(session_num, date_key,
                                            session_records, timing, y))
                      ELSE rows
           /\ y' = IF drawn THEN BelowRow(y) ELSE y
    /\ timing' = timing + 1
    /\ pc' = IF timing + 1 \in TimingRange THEN "rows" ELSE "sessions"
    /\ UNCHANGED <<tz, argv, stdout, exit_code, error, output_path,
                   facility_info, records, header_ops, y_position, y_start,
                   canvas_ops, record_i, records_by_date, session_keys,
                   session_i, session_num, saved>>

\* lines 161-199: one iteration of the inner loop draws one row
DrawRow ==
    /\ pc = "rows"
    /\ LET date_key == session_keys[session_i]
           session_records == SessionRecords(records_by_date, date_key)
       IN  rows' = Append(rows, Row(session_num, date_key, session_records,
                                    timing, y))
    /\ y' = BelowRow(y)
    /\ timing' = timing + 1
    /\ pc' = IF timing + 1 \in TimingRange THEN "rows" ELSE "sessions"
    /\ UNCHANGED <<tz, argv, stdout, exit_code, error, output_path,
                   facility_info, records, header_ops, y_position, y_start,
                   canvas_ops, record_i, records_by_date, session_keys,
                   session_i, session_num, saved>>

\* lines 201 and 73: the table stage returns its cursor
TableReturn ==
    /\ pc = "sessions"
    /\ session_i = Len(session_keys)
    /\ y_position' = y
    /\ pc' = "footer"
    /\ UNCHANGED <<tz, argv, stdout, exit_code, error, output_path,
                   facility_info, records, header_ops, y_start, y, canvas_ops,
                   record_i, records_by_date, session_keys, session_i,
                   session_num, timing, rows, saved>>

\* lines 76-80: the footer is drawn and the canvas saved; saving may raise
Save ==
    /\ pc = "footer"
    /\ canvas_ops' =
           Append(canvas_ops,
                  DrawRightString(page_width - 10 * mm, 10 * mm, "footer"))
    /\ \/ /\ error' = "RenderError"
          /\ pc' = "except"
          /\ UNCHANGED saved
       \/ /\ saved' = TRUE
          /\ pc' = "print"
          /\ UNCHANGED error
    /\ UNCHANGED <<tz, argv, stdout, exit_code, output_path, facility_info,
                   records, header_ops, y_position, y_start, y, record_i,
                   records_by_date, session_keys, session_i, session_num,
                   timing, rows>>

Next ==
    \/ MainUsage
    \/ MainStart
    \/ GenerateFromJson
    \/ Generate
    \/ DrawHeaderInfo
    \/ DrawTableHeader
    \/ GroupRecord
    \/ SortSessions
    \/ NextSession
    \/ DrawRow
    \/ TableReturn
    \/ Save
    \/ PrintSuccess
    \/ HandleException

Spec == Init /\ [][Next]_vars


----------------------------------------------------------------------------
(* The header stage on every facility-info map *)

FieldKeySet == {FieldKeys[j] : j \in 1..Len(FieldKeys)}

\* every map from a subset of the ten keys to an empty or non-empty string
AllInfos == UNION {[present -> {"", "v"}] : present \in SUBSET FieldKeySet}

InitHeader ==
    /\ tz \in {0}
    /\ argv = <<Script, Path, Document(EmptyInfo)>>
    /\ pc = "header"
    /\ stdout = <<>>
    /\ exit_code = 0
    /\ error = ""
    /\ output_path = Path
    /\ facility_info \in AllInfos
    /\ records = <<>>
    /\ header_ops = <<>>
    /\ y_position = page_height - 35 * mm
    /\ y_start = 0
    /\ y = 0
    /\ canvas_ops = <<>>
    /\ record_i = 0
    /\ records_by_date = <<>>
    /\ session_keys = <<>>
    /\ session_i = 0
    /\ session_num = 0
    /\ timing = 0
    /\ rows = <<>>
    /\ saved = FALSE

NextHeader == DrawHeaderInfo

SpecHeader == InitHeader /\ [][NextHeader]_vars

----------------------------------------------------------------------------
(* Vocabulary of the properties *)

Range(s) == {s[i] : i \in 1..Len(s)}

\* the local calendar day of a record, as a day number
RecordDay(r) == LocalDay(Get(r, "timestamp", 0), tz)

\* the calendar days present among the records
DistinctDays == {RecordDay(r) : r \in Range(records)}

\* the "%Y-%m-%d" text of a day number
KeyOfDay(d) == StrfTime(CivilFromDays(d))

\* the table stage has just returned: rows is the table's final content
TableDone == pc = "footer"

RowsOfKey(k) == {i \in 1..Len(rows) : rows[i].date_key = k}

ValidTiming(r) == \E t \in 1..5 : HasTiming(r, t)

\* C1: the groups drawn are the min(#distinct days, 8) earliest calendar
\* days, in ascending order, and no record of a later day is in any row
C1_EarliestEightSessions ==
    TableDone =>
        LET days == DistinctDays
            keyOf == [d \in days |-> KeyOfDay(d)]
            earliest == {d \in days : Cardinality({e \in days : e < d}) < 8}
            drawnKeys == {rows[i].date_key : i \in 1..Len(rows)}
            dayOfRow == [i \in 1..Len(rows) |->
                           {d \in earliest : keyOf[d] = rows[i].date_key}]
        IN
        /\ Cardinality(drawnKeys) = Min(Cardinality(days), 8)
        /\ Cardinality({rows[i].session_num : i \in 1..Len(rows)})
               = Min(Cardinality(days), 8)
        /\ drawnKeys = {keyOf[d] : d \in earliest}
        /\ \A i \in 1..Len(rows) : Cardinality(dayOfRow[i]) = 1
        /\ \A i \in 1..(Len(rows) - 1) :
               \A d \in dayOfRow[i] : \A e \in dayOfRow[i + 1] : d <= e
        /\ \A i \in 1..Len(rows) :
               \A r \in Range(rows[i].timing_records) : RecordDay(r) \in earliest
        /\ \A r \in Range(records) :
               RecordDay(r) \notin earliest =>
                   /\ keyOf[RecordDay(r)] \notin drawnKeys
                   /\ \A i \in 1..Len(rows) : r \notin Range(rows[i].timing_records)

C1_Witness ==
    /\ pc = "footer"
    /\ Cardinality(DistinctDays) > 8
    /\ Len(rows) = 40
    /\ \E r \in Range(records) : RowsOfKey(KeyOfDay(RecordDay(r))) = {}

\* the records of the row's date that have the row's timing, in input order
Matching(row) ==
    SelectSeq(records,
              LAMBDA r : KeyOfDay(RecordDay(r)) = row.date_key
                         /\ HasTiming(r, row.timing))

\* C2: a row with zero matching records shows exactly the three unchecked
\* glyphs (hand sanitizer, hand wash, no action)
C2_ThreeUncheckedGlyphs ==
    \A i \in 1..Len(rows) :
        Matching(rows[i]) = <<>> =>
            rows[i].action_text =
                <<Glyph(FALSE, "hand_sanitizer"), Glyph(FALSE, "hand_wash"),
                  Glyph(FALSE, "no_action")>>

\* the known action kinds carried by a list of records, in order
RECURSIVE KnownKinds(_)
KnownKinds(recs) ==
    IF recs = <<>> THEN <<>>
    ELSE (IF Get(Head(recs), "action", "") \in {"hand_sanitizer", "hand_wash", "no_action"}
          THEN <<Head(recs)["action"]>> ELSE <<>>) \o KnownKinds(Tail(recs))

\* a list without its repeated entries, first occurrences kept in order
RECURSIVE Dedup(_)
Dedup(s) ==
    IF s = <<>> THEN <<>>
    ELSE LET front == Dedup(SubSeq(s, 1, Len(s) - 1)) IN
         IF s[Len(s)] \in Range(front) THEN front ELSE Append(front, s[Len(s)])

FirstTwo(s) == SubSeq(s, 1, Min(2, Len(s)))

\* C3: a row with at least one matching record shows the first two entries
\* of the deduplicated list of checked action kinds, in first-seen order
C3_DeduplicatedFirstTwo ==
    \A i \in 1..Len(rows) :
        Matching(rows[i]) # <<>> =>
            LET kinds == FirstTwo(Dedup(KnownKinds(Matching(rows[i])))) IN
            rows[i].action_text = [j \in 1..Len(kinds) |-> Glyph(TRUE, kinds[j])]

\* C4 as stated: in every invocation stdout carries exactly one JSON object,
\* success with the path or failure with a message, and the exit code is 0
\* exactly on success
C4_AlwaysOneJsonObject ==
    pc = "exited" =>
        /\ Len(stdout) = 1
        /\ stdout[1].kind = "json"
        /\ stdout[1].success = saved
        /\ (exit_code = 0) = saved
        /\ exit_code \in {0, 1}

\* C4 amended: with at least two arguments stdout carries exactly one JSON
\* object (success and the output path when the document was saved, failure
\* and the error message otherwise); with fewer it carries the one usage
\* line; the exit code is 0 exactly when the document was saved, else 1
C4_ResponseAndExitCode ==
    /\ pc # "exited" => stdout = <<>> /\ exit_code = 0
    /\ pc = "exited" =>
        /\ Len(stdout) = 1
        /\ exit_code = (IF saved THEN 0 ELSE 1)
        /\ Len(argv) < 3 => stdout[1] = UsageLine /\ ~saved
        /\ Len(argv) >= 3 =>
               /\ stdout[1].kind = "json"
               /\ stdout[1].success = saved
               /\ saved => stdout[1].payload = argv[2]
               /\ ~saved => stdout[1].payload = error /\ error # ""

C4_Witness ==
    /\ pc = "exited"
    /\ Len(argv) >= 3
    /\ error = "RenderError"
    /\ Len(rows) > 0
    /\ exit_code = 1

\* C5: the applicable glyph of a row is checked iff some record of the row's
\* date has the row's timing
C5_ApplicableIffMatch ==
    TableDone =>
        LET keyOfRecord == [j \in 1..Len(records) |-> KeyOfDay(RecordDay(records[j]))]
        IN  \A i \in 1..Len(rows) :
                rows[i].applicable =
                    (\E j \in 1..Len(records) :
                         /\ keyOfRecord[j] = rows[i].date_key
                         /\ HasTiming(records[j], rows[i].timing))

C5_Witness ==
    /\ pc = "footer"
    /\ \E i \in 1..Len(rows) :
           /\ ~rows[i].applicable
           /\ \E r \in Range(records) :
                  /\ HasTiming(r, rows[i].timing)
                  /\ RowsOfKey(KeyOfDay(RecordDay(r))) # {}
    /\ \E i \in 1..Len(rows) : rows[i].applicable

\* the list with its entries i and i+1 exchanged
SwapAdjacent(s, i) ==
    [j \in 1..Len(s) |-> IF j = i THEN s[i + 1] ELSE IF j = i + 1 THEN s[i] ELSE s[j]]

\* reorderings of a list: adjacent exchanges, reversal, rotation by one
Reorderings(s) ==
    {SwapAdjacent(s, i) : i \in 1..(Len(s) - 1)}
    \cup {Reverse(s)}
    \cup {IF s = <<>> THEN s ELSE Append(Tail(s), Head(s))}

\* the dict after the grouping loop ran over a whole list
RECURSIVE GroupAll(_, _)
GroupAll(recs, zone) ==
    IF recs = <<>> THEN <<>>
    ELSE AddRecord(GroupAll(SubSeq(recs, 1, Len(recs) - 1), zone),
                   recs[Len(recs)], zone)

\* C6: the session number of a row is 1 + the number of present days
\* earlier than the row's day, and reordering the records (adjacent
\* exchange, reversal, rotation) leaves the sorted, cut key list unchanged
C6_SessionNumberIsDateRank ==
    /\ TableDone =>
           LET days == DistinctDays
               keyOf == [d \in days |-> KeyOfDay(d)]
               rank == [d \in days |-> 1 + Cardinality({e \in days : e < d})]
           IN  \A i \in 1..Len(rows) :
                   \E d \in days :
                       /\ keyOf[d] = rows[i].date_key
                       /\ rows[i].session_num = rank[d]
    /\ (pc = "sessions" /\ session_i = 0) =>
           \A p \in Reorderings(records) :
               SessionKeys(GroupAll(p, tz)) = session_keys

C6_Witness ==
    /\ pc = "footer"
    /\ Len(rows) >= 10
    /\ \E i, j \in 1..Len(records) :
           /\ i < j
           /\ RecordDay(records[j]) < RecordDay(records[i])
           /\ RowsOfKey(KeyOfDay(RecordDay(records[i]))) # {}
           /\ RowsOfKey(KeyOfDay(RecordDay(records[j]))) # {}

\* C7: the rows come five per session group, timings 1..5 in order, each row
\* directly below the one before, groups in session-number order, whether
\* or not any record matches
C7_FiveRowsPerSession ==
    /\ \A i \in 1..Len(rows) :
           /\ rows[i].timing = ((i - 1) % 5) + 1
           /\ rows[i].session_num = ((i - 1) \div 5) + 1
           /\ rows[i].date_key = session_keys[rows[i].session_num]
           /\ i > 1 => rows[i].top = rows[i - 1].top - 8 * mm
    /\ pc = "sessions" => Len(rows) = 5 * session_i
    /\ TableDone => Len(rows) = 5 * Len(session_keys)

C7_Witness ==
    /\ pc = "footer"
    /\ Len(rows) >= 10
    /\ \E i \in 1..Len(rows) :
           \A j \in RowsOfKey(rows[i].date_key) : ~rows[j].applicable

\* the calls the header stage makes for field i (0-based) of info, with the
\* first row at height top
ExpectedField(info, i, top) ==
    LET key == FieldKeys[i + 1]
        cx == IF i % 2 = 0 THEN 10 * mm ELSE 110 * mm
        cy == top - (i \div 2) * 5 * mm
    IN  <<DrawString(cx, cy, FieldLabels[i + 1]),
          Line(cx + 25 * mm, cy - 1 * mm, cx + 60 * mm, cy - 1 * mm)>>
        \o (IF key \in DOMAIN info /\ info[key] # ""
            THEN <<DrawString(cx + 26 * mm, cy - 2 * mm, info[key])>>
            ELSE <<>>)

RECURSIVE ExpectedFields(_, _, _)
ExpectedFields(info, n, top) ==
    IF n = 0 THEN <<>>
    ELSE ExpectedFields(info, n - 1, top) \o ExpectedField(info, n - 1, top)

\* C8: the header stage draws the ten labels and ten answer rules in field
\* order, field i in column i mod 2 and row i div 2, the rule at its fixed
\* offset, and a value text exactly for the fields present and non-empty
C8_HeaderGrid ==
    pc = "table" =>
        header_ops = ExpectedFields(facility_info, 10, page_height - 35 * mm)

C8_Witness ==
    /\ pc = "table"
    /\ "ward" \notin DOMAIN facility_info
    /\ "observer" \in DOMAIN facility_info /\ facility_info["observer"] = ""
    /\ "address" \in DOMAIN facility_info /\ facility_info["address"] # ""
    /\ Len(header_ops) > 20

TableStage == pc \in {"group", "sessions", "rows"}

\* C9 as stated: the returned cursor is startY - rowHeight * (1 + 5n) for
\* n session groups
C9_ReturnedCursorFromStartY ==
    pc = "footer" =>
        y_position = y_start - row_height * (1 + 5 * Len(session_keys))

\* C9 amended: the cursor is one row height lower per row drawn, counted
\* from 10 mm below startY: the returned cursor is
\* startY - 10 mm - rowHeight * (1 + 5n) for n session groups
C9_ReturnedCursorBelowGap ==
    /\ TableStage => y = y_start - 10 * mm - 8 * mm * (1 + Len(rows))
    /\ pc = "footer" =>
           /\ Len(rows) = 5 * Cardinality({rows[i].date_key : i \in 1..Len(rows)})
           /\ y_position = y_start - 10 * mm - 8 * mm * (1 + Len(rows))

C9_Witness ==
    /\ pc = "footer"
    /\ Len(rows) = 15
    /\ y_position = y_start - 10 * mm - 8 * mm * 16

\* C10: a record without a timing in 1..5 still makes its day a session
\* group: among the 8 earliest days it gets its rank as session number and
\* five rows (all unchecked when no record of the day matches), beyond them
\* it gets none
C10_InvalidTimingStillGroups ==
    TableDone =>
        LET days == DistinctDays
            keyOf == [d \in days |-> KeyOfDay(d)]
            rank == [d \in days |-> 1 + Cardinality({e \in days : e < d})]
            rowsOf == [d \in days |->
                         {i \in 1..Len(rows) : rows[i].date_key = keyOf[d]}]
            validDays == {RecordDay(q) : q \in {p \in Range(records) : ValidTiming(p)}}
        IN  \A r \in Range(records) :
                ~ValidTiming(r) =>
                    LET d == RecordDay(r) IN
                    IF rank[d] <= 8
                    THEN /\ Cardinality(rowsOf[d]) = 5
                         /\ \A i \in rowsOf[d] : rows[i].session_num = rank[d]
                         /\ d \notin validDays =>
                                \A i \in rowsOf[d] :
                                    /\ ~rows[i].applicable
                                    /\ \A g \in Range(rows[i].action_text) : ~g.checked
                    ELSE rowsOf[d] = {}

\* days with at least one record whose timing is in 1..5
ValidDays == {RecordDay(r) : r \in {q \in Range(records) : ValidTiming(q)}}

C10_Witness ==
    /\ pc = "footer"
    /\ \E r \in Range(records) :
           /\ RecordDay(r) \notin ValidDays
           /\ RowsOfKey(KeyOfDay(RecordDay(r))) # {}
    /\ \E q \in Range(records) :
           /\ \A p \in Range(records) : RecordDay(p) = RecordDay(q) => ValidTiming(p)
           /\ RowsOfKey(KeyOfDay(RecordDay(q))) = {}
           /\ Cardinality({d \in ValidDays : d < RecordDay(q)}) < 8

====
